---- MODULE Spec2Model ----
(***************************************************************************)
(* cargolint (src/src/extension.ts): on every save of a .rs document the   *)
(* extension locates the enclosing Cargo.toml, runs `cargo check           *)
(* --message-format json`, decodes the output line by line, maps every     *)
(* span of every compiler message to a diagnostic and republishes the      *)
(* per-file diagnostics.                                                   *)
(*                                                                         *)
(* Five specifications share the operators that model the code:            *)
(*   Spec         the save handler, with overlapping handler invocations   *)
(*   SpecLocator  findCargoRoot on absolute and relative file names        *)
(*   SpecParser   processCargoCheckOutput on bounded raw outputs           *)
(*   SpecMapper   getSeverity / getLabel / range on bounded message, span  *)
(*   SpecLive     the save handler on a win32 host, every await settling   *)
(***************************************************************************)
EXTENDS Integers, Sequences, FiniteSets, TLC

VARIABLES
  fsFiles,            \* the filesystem: the absolute paths fs.stat succeeds on
  cwd,                \* process working directory (resolves relative paths)
  saved,              \* document.fileName of the save event of the latest step
                      \* (NoPath after any other step)
  pc,                 \* per handler invocation: "Idle", "LocatingRoot", "Checking";
                      \* the invocations in flight are 1..k, oldest first
  fileName,           \* per invocation: document.fileName
  folder,             \* per invocation: findCargoRoot's candidate directory
  probes,             \* per invocation: number of testExists calls made
  cargoRoot,          \* per invocation: the located root
  overtakenBy,        \* per invocation: stdout of a later-started invocation that
                      \* published while this one was in flight (<<>> when none)
  lastRun,            \* the invocation that returned in the latest step: its
                      \* locals and outcome (NoRun after any other step)
  diagnosticsPerFile, \* the store (extension.ts:150)
  dc,                 \* the published diagnostic collection (extension.ts:149)
  statusItem,         \* the status bar item (extension.ts:148)
  lFile, lFolder, lProbes, lResult,   \* SpecLocator: one findCargoRoot call
  pIn, pOut,                          \* SpecParser: one parser call
  mMsg, mSpan, mDiag                  \* SpecMapper: one diagnostic construction

runVars == <<saved, pc, fileName, folder, probes, cargoRoot, overtakenBy, lastRun>>
sharedVars == <<diagnosticsPerFile, dc, statusItem>>
locVars == <<lFile, lFolder, lProbes, lResult>>
parVars == <<pIn, pOut>>
mapVars == <<mMsg, mSpan, mDiag>>
vars == <<fsFiles, cwd, runVars, sharedVars, locVars, parVars, mapVars>>

(***************************************************************************)
(* Bounds.                                                                 *)
(***************************************************************************)
NumRuns == 2        \* handler invocations that may be in flight together
MaxUp == 3          \* cap on the leading ".." of a relative candidate folder
MaxLines == 3       \* lines of a raw output in SpecParser
MaxProbes == 4      \* the count of testExists calls of one invocation stops here

Runs == 1..NumRuns

(***************************************************************************)
(* Paths.  A normalised path: absolute "/s1/s2", or relative with `up`     *)
(* leading ".." segments ("." when up = 0 and segs is empty).  On a win32  *)
(* host an absolute path is rooted at a drive, "C:\s1\s2" (path is         *)
(* path.win32 there).                                                      *)
(***************************************************************************)
AbsPath(s) == [abs |-> TRUE, drive |-> "", up |-> 0, segs |-> s]
DrivePath(s) == [abs |-> TRUE, drive |-> "C:", up |-> 0, segs |-> s]
RelPath(u, s) == [abs |-> FALSE, drive |-> "", up |-> u, segs |-> s]
NoPath == [abs |-> FALSE, drive |-> "", up |-> 0, segs |-> <<"?">>]

Front(s) == SubSeq(s, 1, Len(s) - 1)
Last(s) == s[Len(s)]

\* path.dirname of a path with at least one named segment
dirname(p) == [p EXCEPT !.segs = Front(p.segs)]

\* path.join(p, '..'): normalisation drops the last segment; "/.." is "/",
\* "C:\.." is "C:\", and a relative path with nothing left to drop gains a
\* leading "..".
joinDotDot(p) ==
  IF p.segs # <<>> THEN [p EXCEPT !.segs = Front(p.segs)]
  ELSE IF p.abs THEN p
  ELSE [p EXCEPT !.up = p.up + 1]

RECURSIVE joinUp(_, _)
joinUp(p, n) == IF n = 0 THEN p ELSE joinUp(joinDotDot(p), n - 1)

\* path.join(p, q) for a relative q
join(p, q) == LET b == joinUp(p, q.up) IN [b EXCEPT !.segs = b.segs \o q.segs]

\* the string comparison folder === '/'
IsSlash(p) == p.abs /\ p.drive = "" /\ p.segs = <<>>

\* how the operating system resolves a path: the absolute segment sequence
RECURSIVE DropUp(_, _)
DropUp(s, n) == IF n = 0 \/ s = <<>> THEN s ELSE DropUp(Front(s), n - 1)
Resolve(p) == IF p.abs THEN p.segs ELSE DropUp(cwd, p.up) \o p.segs

\* testExists(f): stat resolves or rejects; a rejection is caught and is FALSE
testExists(f) == Resolve(f) \in fsFiles

Manifest == RelPath(0, <<"Cargo.toml">>)

(***************************************************************************)
(* findCargoRoot, one iteration of its loop from candidate directory f      *)
(* (one awaited testExists).                                               *)
(***************************************************************************)
findCargoRootStep(f) ==
  LET testPath == join(f, Manifest)
      exists == testExists(testPath)
      next == joinDotDot(f)
  IN  IF exists THEN [kind |-> "return", folder |-> f]
      ELSE IF IsSlash(next) THEN [kind |-> "reject", folder |-> next]
      ELSE [kind |-> "continue", folder |-> next]

(***************************************************************************)
(* SpecLocator: findCargoRoot applied to one file name.                    *)
(***************************************************************************)
Dirs == {<<>>, <<"p">>, <<"p", "src">>, <<"q">>}
LocatorFiles ==
  {AbsPath(d \o <<"main.rs">>) : d \in Dirs}
    \cup {RelPath(0, <<"main.rs">>), RelPath(0, <<"src", "main.rs">>)}
LocatorCwds == {<<>>, <<"p">>, <<"q", "sub">>}
FsOf(D) == {d \o <<"Cargo.toml">> : d \in D}

LocIdle ==
  /\ lFile = NoPath /\ lFolder = NoPath /\ lProbes = 0 /\ lResult = "none"

(***************************************************************************)
(* Text.  A string is a sequence of tokens, so that concatenation is real. *)
(* A raw output is the sequence of its lines (s.split('\n')); a line is    *)
(* `pad` blanks around a text that is empty, not JSON, or the JSON text of *)
(* a value.                                                                *)
(***************************************************************************)
Null == [k |-> "null"]
Artifact == [k |-> "obj", reason |-> "compiler-artifact"]
Msg(body) == [k |-> "obj", reason |-> "compiler-message", message |-> body]

Line(n, t) == [pad |-> n, text |-> t]
EmptyText == [t |-> "empty"]
GarbageText == [t |-> "garbage"]
JsonText(v) == [t |-> "json", v |-> v]

\* l.trim()
trim(l) == [l EXCEPT !.pad = 0]
\* l.length > 0
NonEmpty(l) == l.pad > 0 \/ l.text.t # "empty"

\* JSON.parse(l): the value, or a thrown SyntaxError
JSONParse(l) ==
  IF l.text.t = "json" THEN [threw |-> FALSE, v |-> l.text.v]
  ELSE [threw |-> TRUE, v |-> Null]

\* const lines = s.split('\n').map(l => l.trim()).filter(l => l.length > 0)
ParserLines(s) == SelectSeq([i \in 1..Len(s) |-> trim(s[i])], NonEmpty)

\* let v = null; try { v = JSON.parse(l) } catch (e) { showErrorMessage } return v
DecodeLine(l) == LET r == JSONParse(l) IN IF r.threw THEN Null ELSE r.v

\* mutant: an undecodable line is dropped instead of leaving a null placeholder
processDropsBadLines(s) ==
  LET Decodes(l) == ~JSONParse(l).threw
      lines == SelectSeq(ParserLines(s), Decodes)
  IN  [i \in 1..Len(lines) |-> DecodeLine(lines[i])]

processCargoCheckOutput(s) ==
  LET lines == ParserLines(s) IN [i \in 1..Len(lines) |-> DecodeLine(lines[i])]

\* the line numbers (i + 1) named in the parser's showErrorMessage calls
RECURSIVE WarnedFrom(_, _)
WarnedFrom(lines, i) ==
  IF i > Len(lines) THEN <<>>
  ELSE (IF JSONParse(lines[i]).threw THEN <<i>> ELSE <<>>) \o WarnedFrom(lines, i + 1)
ParserWarnings(s) == WarnedFrom(ParserLines(s), 1)

(***************************************************************************)
(* Diagnostic construction (extension.ts:127-145, 170-174).                *)
(***************************************************************************)
NoLabel == [null |-> TRUE, text |-> <<>>]
Label(t) == [null |-> FALSE, text |-> t]

\* mutant: the level is tested before the primary flag
getSeverityLevelFirst(message, span) ==
  IF message.message.level = "error" THEN "Error"
  ELSE IF span.is_primary THEN "Warning" ELSE "Hint"

getSeverity(message, span) ==
  IF span.is_primary
  THEN IF message.message.level = "error" THEN "Error" ELSE "Warning"
  ELSE "Hint"

\* mutant: the label is tested for truthiness, so an empty label counts as none
getLabelTruthy(message, span) ==
  IF span.label.null \/ span.label.text = <<>> THEN message.message.message
  ELSE message.message.message \o <<": ">> \o span.label.text

getLabel(message, span) ==
  IF span.label.null THEN message.message.message
  ELSE message.message.message \o <<": ">> \o span.label.text

Position(line, character) == [line |-> line, character |-> character]
Range(start, end) == [start |-> start, end |-> end]

\* mutant: the end column is made inclusive (one less than the exclusive end)
DiagnosticInclusiveEnd(message, span) ==
  [range |-> Range(Position(span.line_start - 1, span.column_start - 1),
                   Position(span.line_end - 1, span.column_end - 2)),
   message |-> getLabel(message, span),
   severity |-> getSeverity(message, span)]

\* new vscode.Diagnostic(new vscode.Range(new vscode.Position(..), ..), label, severity)
Diagnostic(message, span) ==
  [range |-> Range(Position(span.line_start - 1, span.column_start - 1),
                   Position(span.line_end - 1, span.column_end - 1)),
   message |-> getLabel(message, span),
   severity |-> getSeverity(message, span)]

\* mutant: a diagnostic equal to one already stored for the file is not pushed
PushDistinct(st, key, d) ==
  IF key \in DOMAIN st
  THEN IF \E i \in 1..Len(st[key]) : st[key][i] = d THEN st
       ELSE [st EXCEPT ![key] = Append(@, d)]
  ELSE st @@ (key :> <<d>>)

\* diagnosticsPerFile.get / set / push for one diagnostic
PushDiagnostic(st, key, d) ==
  IF key \in DOMAIN st THEN [st EXCEPT ![key] = Append(@, d)]
  ELSE st @@ (key :> <<d>>)

\* for (let span of message.message.spans) { ... }
RECURSIVE MapSpans(_, _, _, _)
MapSpans(st, message, root, i) ==
  IF i > Len(message.message.spans) THEN st
  ELSE LET span == message.message.spans[i]
           file_full_path == join(root, span.file_name)
       IN  MapSpans(PushDiagnostic(st, file_full_path, Diagnostic(message, span)),
                    message, root, i + 1)

\* for (let message of messages) { ... }: reading .message of null throws a
\* TypeError, which leaves the loop with the store as mapped so far.
RECURSIVE MapMessages(_, _, _, _)
MapMessages(st, msgs, root, i) ==
  IF i > Len(msgs) THEN [store |-> st, threw |-> FALSE]
  ELSE IF msgs[i].k = "null" THEN [store |-> st, threw |-> TRUE]
  ELSE IF "message" \notin DOMAIN msgs[i] THEN MapMessages(st, msgs, root, i + 1)
  ELSE MapMessages(MapSpans(st, msgs[i], root, 1), msgs, root, i + 1)

\* mutant: the stored sequences are left as they are
ClearNothing(st) == st

\* mutant: clearing empties the map itself (diagnosticsPerFile.clear())
ClearDeletes(st) == [f \in {} |-> <<>>]

\* for (let [_file, diagnostics] of diagnosticsPerFile) diagnostics.length = 0
ClearStore(st) == [f \in DOMAIN st |-> <<>>]

\* mutant: only files that have diagnostics are published
PublishNonEmpty(coll, st) ==
  [f \in DOMAIN coll \cup {g \in DOMAIN st : st[g] # <<>>} |->
     IF f \in DOMAIN st /\ st[f] # <<>> THEN st[f] ELSE coll[f]]

\* mutant: a file that already has a published entry keeps it
PublishKeepsShown(coll, st) ==
  [f \in DOMAIN coll \cup DOMAIN st |-> IF f \in DOMAIN coll THEN coll[f] ELSE st[f]]

\* for (let [file, diagnostics] of diagnosticsPerFile) dc.set(Uri.file(file), diagnostics)
Publish(coll, st) ==
  [f \in DOMAIN coll \cup DOMAIN st |-> IF f \in DOMAIN st THEN st[f] ELSE coll[f]]

EmptyMap == [f \in {} |-> <<>>]

(***************************************************************************)
(* The child process (extension.ts:57-75).  The first of its 'error' and   *)
(* 'close' events settles the promise: 'error' rejects, 'close' resolves   *)
(* with the exit code and the accumulated text.                            *)
(***************************************************************************)
ErrorEvent == [type |-> "error"]
CloseEvent(code, out, err) == [type |-> "close", code |-> code, stdout |-> out, stderr |-> err]

NoEvent == [type |-> "none"]
NoOutput == [settled |-> "pending"]

\* mutant: a non-zero exit code rejects
execArgsRejectsNonZero(ev) ==
  IF ev.type = "error" \/ ev.code # 0 THEN [settled |-> "rejected", reason |-> ev]
  ELSE [settled |-> "resolved", code |-> ev.code, stdout |-> ev.stdout, stderr |-> ev.stderr]

execArgs(ev) ==
  IF ev.type = "error" THEN [settled |-> "rejected", reason |-> ev]
  ELSE [settled |-> "resolved", code |-> ev.code, stdout |-> ev.stdout, stderr |-> ev.stderr]

\* return processCargoCheckOutput(output.stdout)
runCargoCheck(o) == processCargoCheckOutput(o.stdout)

(***************************************************************************)
(* Inputs of Spec: the saved documents, the filesystem, what cargo prints. *)
(***************************************************************************)
RsNames == {"main.rs", "lib.rs"}
\* document.fileName.endsWith('.rs')
endsWithRs(f) == Last(f.segs) \in RsNames

SavedFiles ==
  {AbsPath(<<"p", "src", "main.rs">>), AbsPath(<<"q", "lib.rs">>),
   AbsPath(<<"x", "main.rs">>), AbsPath(<<"p", "notes.txt">>)}
SpecFs == {FsOf({<<"p">>, <<"q">>})}

MainRs == RelPath(0, <<"src", "main.rs">>)
LibRs == RelPath(0, <<"lib.rs">>)
Span(f, ls, cs, le, ce, prim, lbl) ==
  [file_name |-> f, line_start |-> ls, column_start |-> cs, line_end |-> le,
   column_end |-> ce, is_primary |-> prim, label |-> lbl]
Body(text, level, spans) == [message |-> text, level |-> level, spans |-> spans]

SpanPrimary == Span(MainRs, 5, 3, 5, 10, TRUE, NoLabel)
SpanSecondary == Span(MainRs, 4, 1, 4, 1, FALSE, Label(<<"expected due to this">>))
SpanLib == Span(LibRs, 1, 1, 2, 4, TRUE, Label(<<"not found">>))
MsgMismatch == Msg(Body(<<"mismatched types">>, "error", <<SpanPrimary, SpanSecondary>>))
MsgUnused == Msg(Body(<<"unused variable">>, "warning", <<SpanPrimary>>))
MsgLib == Msg(Body(<<"unresolved import">>, "error", <<SpanLib, SpanSecondary, SpanLib>>))

OutClean == <<Line(0, JsonText(Artifact)), Line(0, EmptyText)>>
OutTwo == <<Line(0, JsonText(MsgMismatch)), Line(1, EmptyText),
            Line(0, JsonText(MsgUnused)), Line(0, EmptyText)>>
OutLib == <<Line(1, JsonText(MsgLib)), Line(0, JsonText(Artifact))>>
OutBad == <<Line(0, JsonText(MsgMismatch)), Line(0, GarbageText), Line(0, JsonText(MsgUnused))>>
\* what cargo check can print in the project at `root`
Outputs(root) ==
  IF root.segs = <<"p">> THEN {OutClean, OutTwo, OutBad} ELSE {OutClean, OutLib}
AllOutputs == {OutClean, OutTwo, OutBad, OutLib}
ExitCodes == {0, 101}
Stderrs == {<<"Checking">>}

(***************************************************************************)
(* Spec: the onDidSaveTextDocument handler (extension.ts:151-192).  Each   *)
(* action runs one invocation from one await to the next.  lastRun keeps   *)
(* the locals of the invocation that returned in the latest step.          *)
(***************************************************************************)
NoRun ==
  [slot |-> 0, cargoRoot |-> NoPath, probes |-> 0, event |-> NoEvent, output |-> NoOutput,
   messages |-> <<>>, warned |-> <<>>, overtakenBy |-> <<>>, outcome |-> "none"]

RunIdle ==
  /\ saved = NoPath
  /\ pc = [r \in Runs |-> "Idle"]
  /\ fileName = [r \in Runs |-> NoPath]
  /\ folder = [r \in Runs |-> NoPath]
  /\ probes = [r \in Runs |-> 0]
  /\ cargoRoot = [r \in Runs |-> NoPath]
  /\ overtakenBy = [r \in Runs |-> <<>>]
  /\ lastRun = NoRun

SharedIdle ==
  /\ diagnosticsPerFile = EmptyMap
  /\ dc = EmptyMap
  /\ statusItem = [text |-> "", shown |-> FALSE]

NoParse == [done |-> FALSE, value |-> <<>>, warned |-> <<>>]
NoDiagnostic == [range |-> Range(Position(0, 0), Position(0, 0)), message |-> <<>>,
                 severity |-> "none"]
ParIdle == pIn = <<>> /\ pOut = NoParse
MapIdle == mMsg = Artifact /\ mSpan = SpanPrimary /\ mDiag = NoDiagnostic

Init ==
  /\ fsFiles \in SpecFs
  /\ cwd = <<>>
  /\ RunIdle /\ SharedIdle /\ LocIdle /\ ParIdle /\ MapIdle

pureVars == <<locVars, parVars, mapVars>>

\* a save of a document whose name does not end with '.rs'
\* mutant: the status lines 154-155 run before the extension filter
SaveIgnoredShowsStatus(f) ==
  /\ ~endsWithRs(f)
  /\ saved' = f
  /\ statusItem' = [text |-> "cargolint:finding root", shown |-> TRUE]
  /\ lastRun' = NoRun
  /\ UNCHANGED <<fsFiles, cwd, pc, fileName, folder, probes, cargoRoot,
                 overtakenBy, diagnosticsPerFile, dc, pureVars>>

SaveIgnored(f) ==
  /\ ~endsWithRs(f)
  /\ saved' = f
  /\ lastRun' = NoRun
  /\ UNCHANGED <<fsFiles, cwd, pc, fileName, folder, probes, cargoRoot,
                 overtakenBy, sharedVars, pureVars>>

\* lines 153-156, up to the first await inside findCargoRoot; the invocation
\* takes the slot after the invocations in flight
Save(r, f) ==
  /\ pc[r] = "Idle"
  /\ \A q \in Runs : q < r => pc[q] # "Idle"
  /\ endsWithRs(f)
  /\ saved' = f
  /\ statusItem' = [text |-> "cargolint:finding root", shown |-> TRUE]
  /\ pc' = [pc EXCEPT ![r] = "LocatingRoot"]
  /\ fileName' = [fileName EXCEPT ![r] = f]
  /\ folder' = [folder EXCEPT ![r] = dirname(f)]
  /\ overtakenBy' = [overtakenBy EXCEPT ![r] = <<>>]
  /\ lastRun' = NoRun
  /\ UNCHANGED <<fsFiles, cwd, probes, cargoRoot, diagnosticsPerFile, dc, pureVars>>

\* the slots after invocation r returned: the later-started ones move down
Compact(F, r, idle) ==
  [x \in Runs |-> IF x < r THEN F[x] ELSE IF x < NumRuns THEN F[x + 1] ELSE idle]

\* catch (e) { showErrorMessage } or the end of the try block, then
\* finally { statusItem.hide() }: the invocation returns
Return(r, n, ev, o, msgs, w, kind) ==
  /\ lastRun' = [slot |-> r, cargoRoot |-> cargoRoot[r], probes |-> n, event |-> ev, output |-> o,
                 messages |-> msgs, warned |-> w, overtakenBy |-> overtakenBy[r],
                 outcome |-> kind]
  /\ overtakenBy' =
       Compact([x \in Runs |-> IF kind = "Published" /\ x < r /\ pc[x] # "Idle"
                               THEN o.stdout ELSE overtakenBy[x]], r, <<>>)
  /\ probes' = Compact(probes, r, 0)
  /\ saved' = NoPath
  /\ pc' = Compact(pc, r, "Idle")
  /\ fileName' = Compact(fileName, r, NoPath)
  /\ folder' = Compact(folder, r, NoPath)
  /\ cargoRoot' = Compact(cargoRoot, r, NoPath)

\* one more testExists call, counted up to MaxProbes
Counted(n) == IF n < MaxProbes THEN n + 1 ELSE n

\* one testExists settles: lines 39-47, then 158-159 up to the spawn
Probe(r) ==
  /\ pc[r] = "LocatingRoot"
  /\ LET s == findCargoRootStep(folder[r]) IN
       \/ /\ s.kind = "return"
          /\ cargoRoot' = [cargoRoot EXCEPT ![r] = s.folder]
          /\ statusItem' = [statusItem EXCEPT !.text = "cargolint:linting"]
          /\ pc' = [pc EXCEPT ![r] = "Checking"]
          /\ probes' = [probes EXCEPT ![r] = Counted(@)]
          /\ saved' = NoPath /\ lastRun' = NoRun
          /\ UNCHANGED <<fileName, folder, overtakenBy>>
       \/ /\ s.kind = "continue"
          /\ folder' = [folder EXCEPT ![r] = s.folder]
          /\ probes' = [probes EXCEPT ![r] = Counted(@)]
          /\ saved' = NoPath /\ lastRun' = NoRun
          /\ UNCHANGED <<fileName, cargoRoot, statusItem, pc, overtakenBy>>
       \/ /\ s.kind = "reject"
          /\ Return(r, Counted(probes[r]), NoEvent, NoOutput, <<>>, <<>>, "RootNotFound")
          /\ statusItem' = [statusItem EXCEPT !.shown = FALSE]
  /\ UNCHANGED <<fsFiles, cwd, diagnosticsPerFile, dc, pureVars>>

\* mutant: a completion is discarded when a later-started run has published
AfterExecDropsStale(r, ev, o) ==
  IF o.settled = "rejected"
  THEN /\ Return(r, probes[r], ev, o, <<>>, <<>>, "SpawnFailure")
       /\ statusItem' = [statusItem EXCEPT !.shown = FALSE]
       /\ UNCHANGED <<diagnosticsPerFile, dc>>
  ELSE IF overtakenBy[r] # <<>>
  THEN /\ Return(r, probes[r], ev, o, runCargoCheck(o), ParserWarnings(o.stdout), "Discarded")
       /\ statusItem' = [statusItem EXCEPT !.shown = FALSE]
       /\ UNCHANGED <<diagnosticsPerFile, dc>>
  ELSE LET msgs == runCargoCheck(o)
           cleared == ClearStore(diagnosticsPerFile)
           res == MapMessages(cleared, msgs, cargoRoot[r], 1)
       IN  /\ diagnosticsPerFile' = res.store
           /\ dc' = IF res.threw THEN dc ELSE Publish(dc, res.store)
           /\ Return(r, probes[r], ev, o, msgs, ParserWarnings(o.stdout),
                     IF res.threw THEN "MapFailure" ELSE "Published")
           /\ statusItem' = [text |-> "cargolint:converting output", shown |-> FALSE]

\* the handler from the settling of execArgs' promise to its return: a
\* mutant: the publish loop runs before the clear and the mapping
AfterExecPublishesFirst(r, ev, o) ==
  IF o.settled = "rejected"
  THEN /\ Return(r, probes[r], ev, o, <<>>, <<>>, "SpawnFailure")
       /\ statusItem' = [statusItem EXCEPT !.shown = FALSE]
       /\ UNCHANGED <<diagnosticsPerFile, dc>>
  ELSE LET msgs == runCargoCheck(o)
           res == MapMessages(ClearStore(diagnosticsPerFile), msgs, cargoRoot[r], 1)
       IN  /\ dc' = Publish(dc, diagnosticsPerFile)
           /\ diagnosticsPerFile' = res.store
           /\ Return(r, probes[r], ev, o, msgs, ParserWarnings(o.stdout),
                     IF res.threw THEN "MapFailure" ELSE "Published")
           /\ statusItem' = [text |-> "cargolint:converting output", shown |-> FALSE]

\* mutant: the clear is limited to the files under the run's own project root
AfterExecClearsOwnRoot(r, ev, o) ==
  IF o.settled = "rejected"
  THEN /\ Return(r, probes[r], ev, o, <<>>, <<>>, "SpawnFailure")
       /\ statusItem' = [statusItem EXCEPT !.shown = FALSE]
       /\ UNCHANGED <<diagnosticsPerFile, dc>>
  ELSE LET msgs == runCargoCheck(o)
           root == cargoRoot[r]
           cleared == [f \in DOMAIN diagnosticsPerFile |->
                         IF /\ Len(f.segs) >= Len(root.segs)
                            /\ SubSeq(f.segs, 1, Len(root.segs)) = root.segs
                         THEN <<>> ELSE diagnosticsPerFile[f]]
           res == MapMessages(cleared, msgs, root, 1)
       IN  /\ diagnosticsPerFile' = res.store
           /\ dc' = IF res.threw THEN dc ELSE Publish(dc, res.store)
           /\ Return(r, probes[r], ev, o, msgs, ParserWarnings(o.stdout),
                     IF res.threw THEN "MapFailure" ELSE "Published")
           /\ statusItem' = [text |-> "cargolint:converting output", shown |-> FALSE]

\* rejection goes to catch; a resolution runs lines 124, 159-185 without
\* suspension (parse, clear, map, publish), or to catch when the map loop throws
AfterExec(r, ev, o) ==
  IF o.settled = "rejected"
  THEN /\ Return(r, probes[r], ev, o, <<>>, <<>>, "SpawnFailure")
       /\ statusItem' = [statusItem EXCEPT !.shown = FALSE]
       /\ UNCHANGED <<diagnosticsPerFile, dc>>
  ELSE LET msgs == runCargoCheck(o)
           cleared == ClearStore(diagnosticsPerFile)
           res == MapMessages(cleared, msgs, cargoRoot[r], 1)
       IN  /\ diagnosticsPerFile' = res.store
           /\ dc' = IF res.threw THEN dc ELSE Publish(dc, res.store)
           /\ Return(r, probes[r], ev, o, msgs, ParserWarnings(o.stdout),
                     IF res.threw THEN "MapFailure" ELSE "Published")
           /\ statusItem' = [text |-> "cargolint:converting output", shown |-> FALSE]

\* mutant: the failure path wipes the store and republishes it
SpawnErrorWipes(r) ==
  /\ pc[r] = "Checking"
  /\ Return(r, probes[r], ErrorEvent, execArgs(ErrorEvent), <<>>, <<>>, "SpawnFailure")
  /\ statusItem' = [statusItem EXCEPT !.shown = FALSE]
  /\ diagnosticsPerFile' = ClearStore(diagnosticsPerFile)
  /\ dc' = Publish(dc, ClearStore(diagnosticsPerFile))
  /\ UNCHANGED <<fsFiles, cwd, pureVars>>

\* the child emits 'error' (it could not be spawned)
SpawnError(r) ==
  /\ pc[r] = "Checking"
  /\ AfterExec(r, ErrorEvent, execArgs(ErrorEvent))
  /\ UNCHANGED <<fsFiles, cwd, pureVars>>

\* the child emits 'close' with its exit code, after all of its output
CheckerClose(r, code, out) ==
  /\ pc[r] = "Checking"
  /\ out \in Outputs(cargoRoot[r])
  /\ \E err \in Stderrs :
       LET ev == CloseEvent(code, out, err) IN AfterExec(r, ev, execArgs(ev))
  /\ UNCHANGED <<fsFiles, cwd, pureVars>>

Next ==
  \/ \E f \in SavedFiles : SaveIgnored(f)
  \/ \E r \in Runs, f \in SavedFiles : Save(r, f)
  \/ \E r \in Runs : Probe(r)
  \/ \E r \in Runs : SpawnError(r)
  \/ \E r \in Runs, code \in ExitCodes, out \in AllOutputs : CheckerClose(r, code, out)

Spec == Init /\ [][Next]_vars

(***************************************************************************)
(* SpecLive: the same handler on a win32 host, where document.fileName is  *)
(* a drive-rooted path.  Every awaited promise settles: a pending fs.stat  *)
(* calls back (lines 13-23), and a spawned child emits 'error' or 'close'  *)
(* (lines 68-73).                                                          *)
(***************************************************************************)
LiveFiles ==
  {DrivePath(<<"p", "src", "main.rs">>), DrivePath(<<"x", "main.rs">>),
   DrivePath(<<"p", "notes.txt">>)}

NextLive ==
  \/ \E f \in LiveFiles : SaveIgnored(f)
  \/ \E r \in Runs, f \in LiveFiles : Save(r, f)
  \/ \E r \in Runs : Probe(r)
  \/ \E r \in Runs : SpawnError(r)
  \/ \E r \in Runs, code \in ExitCodes, out \in AllOutputs : CheckerClose(r, code, out)

Settles(r) ==
  \/ Probe(r)
  \/ SpawnError(r)
  \/ \E code \in ExitCodes, out \in AllOutputs : CheckerClose(r, code, out)

SpecLive == Init /\ [][NextLive]_vars /\ \A r \in Runs : WF_vars(Settles(r))

(***************************************************************************)
(* SpecLocator: findCargoRoot (extension.ts:35-49) called on one file      *)
(* name, absolute or relative, in one filesystem.                          *)
(***************************************************************************)
InitLocator ==
  /\ fsFiles \in {FsOf(D) : D \in SUBSET Dirs}
  /\ cwd \in LocatorCwds
  /\ lFile \in LocatorFiles
  /\ lFolder = dirname(lFile)
  /\ lProbes = 0
  /\ lResult = "pending"
  /\ RunIdle /\ SharedIdle /\ ParIdle /\ MapIdle

\* one iteration of the loop; a relative candidate never equals '/', so its
\* leading ".." are capped at MaxUp
LocProbe ==
  /\ lResult = "pending"
  /\ lFolder.up < MaxUp
  /\ LET s == findCargoRootStep(lFolder) IN
       /\ lFolder' = s.folder
       /\ lProbes' = lProbes + 1
       /\ lResult' = CASE s.kind = "return" -> "resolved"
                       [] s.kind = "reject" -> "rejected"
                       [] OTHER -> "pending"
  /\ UNCHANGED <<fsFiles, cwd, lFile, runVars, sharedVars, parVars, mapVars>>

NextLocator == LocProbe

SpecLocator == InitLocator /\ [][NextLocator]_vars

(***************************************************************************)
(* SpecParser: processCargoCheckOutput (extension.ts:109-120) on one raw   *)
(* output of at most MaxLines lines.                                       *)
(***************************************************************************)
ParserLineSet ==
  {Line(0, EmptyText), Line(1, EmptyText), Line(0, GarbageText),
   Line(0, JsonText(Artifact)), Line(1, JsonText(MsgUnused)), Line(0, JsonText(Null))}

SeqsUpTo(S, n) == UNION {[1..k -> S] : k \in 1..n}

InitParser ==
  /\ pIn \in SeqsUpTo(ParserLineSet, MaxLines)
  /\ pOut = NoParse
  /\ fsFiles \in SpecFs /\ cwd = <<>>
  /\ RunIdle /\ SharedIdle /\ LocIdle /\ MapIdle

Parse ==
  /\ ~pOut.done
  /\ pOut' = [done |-> TRUE, value |-> processCargoCheckOutput(pIn),
              warned |-> ParserWarnings(pIn)]
  /\ UNCHANGED <<fsFiles, cwd, pIn, runVars, sharedVars, locVars, mapVars>>

NextParser == Parse

SpecParser == InitParser /\ [][NextParser]_vars

(***************************************************************************)
(* SpecMapper: the diagnostic built for one message and one span           *)
(* (extension.ts:127-145, 170-173).                                        *)
(***************************************************************************)
MapperLevels == {"error", "warning", "note", "help", "Error"}
MapperTexts == {<<"mismatched types">>, <<"unused", "variable">>}
MapperLabels == {NoLabel, Label(<<"expected u32">>), Label(<<>>)}
MapperCoords == {<<5, 3, 5, 10>>, <<4, 1, 4, 1>>, <<1, 1, 2, 4>>}
MapperMessages == {Msg(Body(t, l, <<>>)) : t \in MapperTexts, l \in MapperLevels}
MapperSpans ==
  {Span(MainRs, c[1], c[2], c[3], c[4], prim, lbl) :
     c \in MapperCoords, prim \in BOOLEAN, lbl \in MapperLabels}

InitMapper ==
  /\ mMsg \in MapperMessages
  /\ mSpan \in MapperSpans
  /\ mDiag = NoDiagnostic
  /\ fsFiles \in SpecFs /\ cwd = <<>>
  /\ RunIdle /\ SharedIdle /\ LocIdle /\ ParIdle

Construct ==
  /\ mDiag = NoDiagnostic
  /\ mDiag' = Diagnostic(mMsg, mSpan)
  /\ UNCHANGED <<fsFiles, cwd, mMsg, mSpan, runVars, sharedVars, locVars, parVars>>

NextMapper == Construct

SpecMapper == InitMapper /\ [][NextMapper]_vars

(***************************************************************************)
(* Properties.                                                             *)
(***************************************************************************)
HasBody(m) == m.k = "obj" /\ "message" \in DOMAIN m

\* every (message, span) of the messages that have a body, in encounter order
RECURSIVE SpanPairs(_)
SpanPairs(msgs) ==
  IF msgs = <<>> THEN <<>>
  ELSE LET m == Head(msgs)
           own == IF HasBody(m)
                  THEN [j \in 1..Len(m.message.spans) |-> [m |-> m, s |-> m.message.spans[j]]]
                  ELSE <<>>
       IN  own \o SpanPairs(Tail(msgs))

KeysOf(msgs, root) ==
  {join(root, SpanPairs(msgs)[k].s.file_name) : k \in 1..Len(SpanPairs(msgs))}

ExpectedFor(msgs, root, f) ==
  LET InF(pr) == join(root, pr.s.file_name) = f
      sel == SelectSeq(SpanPairs(msgs), InF)
  IN  [k \in 1..Len(sel) |-> Diagnostic(sel[k].m, sel[k].s)]

StoreSeq(f) == IF f \in DOMAIN diagnosticsPerFile THEN diagnosticsPerFile[f] ELSE <<>>

Undecodable(l) == l.text.t = "garbage"
HasUndecodable(out) == \E i \in 1..Len(out) : Undecodable(out[i])

\* some invocation returns in this step: the invocations in flight are 1..r
\* before it and 1..r-1 after it
Returns(r) == pc[r] # "Idle" /\ pc'[r] = "Idle"

\* C1: a run whose checker output has an undecodable line still completes
\* normally: it publishes, and the store holds the diagnostics of every span of
\* every decoded compiler message.
C1_UndecodableLineStillPublishes ==
  (lastRun.event.type = "close" /\ HasUndecodable(lastRun.event.stdout)) =>
    /\ lastRun.outcome = "Published"
    /\ \A f \in DOMAIN diagnosticsPerFile \cup KeysOf(lastRun.messages, lastRun.cargoRoot) :
         /\ StoreSeq(f) = ExpectedFor(lastRun.messages, lastRun.cargoRoot, f)
         /\ f \in DOMAIN dc /\ dc[f] = StoreSeq(f)

\* C2: every step other than the one in which a checker process has exited and
\* its output is parsed leaves the store and the published collection unchanged;
\* in particular the step in which a run aborts with RootNotFound or with a
\* spawn failure.
C2_NoMutationBeforeParse ==
  [][(\A r \in Runs : ~(Returns(r) /\ lastRun'.output.settled = "resolved"))
       => UNCHANGED <<diagnosticsPerFile, dc>>]_vars

C2_Witness ==
  /\ lastRun.outcome = "SpawnFailure"
  /\ \E f \in DOMAIN dc : dc[f] # <<>>
  /\ \E f \in DOMAIN diagnosticsPerFile : diagnosticsPerFile[f] # <<>>

\* the ancestors of the file's directory that hold a manifest
StartDir(f) == Resolve(dirname(f))
AncestorsOf(d) == {SubSeq(d, 1, k) : k \in 0..Len(d)}
ManifestAncestors(f) == {a \in AncestorsOf(StartDir(f)) : a \o <<"Cargo.toml">> \in fsFiles}
Nearest(A) == CHOOSE a \in A : \A b \in A : Len(b) <= Len(a)

\* C3: when some ancestor directory of the file, up to and including the
\* filesystem root, holds a manifest, findCargoRoot does not reject and returns
\* the nearest such ancestor.
C3_ReturnsNearestManifestAncestor ==
  (lFile # NoPath /\ ManifestAncestors(lFile) # {}) =>
    /\ lResult # "rejected"
    /\ lResult = "resolved" => Resolve(lFolder) = Nearest(ManifestAncestors(lFile))

\* C4: when no ancestor directory of the file holds a manifest, findCargoRoot
\* makes at most one existence probe per ancestor directory, never returns a
\* directory, and has rejected once every ancestor has been probed.
C4_NotFoundTerminates ==
  (lFile # NoPath /\ ManifestAncestors(lFile) = {}) =>
    /\ lResult # "resolved"
    /\ lProbes <= Len(StartDir(lFile)) + 1
    /\ lProbes = Len(StartDir(lFile)) + 1 => lResult = "rejected"

\* C5: in the step that ends a successful run, every file that had an entry in
\* the store before the step and is referenced by no span of the new output is
\* published with an empty diagnostic list.
C5_UnreferencedFilesPublishedEmpty ==
  [][((\E r \in Runs : Returns(r)) /\ lastRun'.outcome = "Published") =>
       \A f \in DOMAIN diagnosticsPerFile :
         f \notin KeysOf(lastRun'.messages, lastRun'.cargoRoot)
           => f \in DOMAIN dc' /\ dc'[f] = <<>>]_vars

C5_Witness ==
  /\ lastRun.outcome = "Published"
  /\ \A i \in 1..Len(lastRun.messages) : ~HasBody(lastRun.messages[i])
  /\ \E f \in DOMAIN dc : dc[f] = <<>>

\* C6: the exit code never decides the outcome: a 'close' event resolves with
\* its code, stdout and stderr whatever the code, a run ends in the spawn
\* failure branch exactly when the child emitted 'error', and a run whose
\* output decodes publishes the diagnostics of that output whatever the code.
Mappable(l) == l.text.t = "empty" \/ (l.text.t = "json" /\ l.text.v.k # "null")
C6_ExitCodeIsData ==
  /\ lastRun.outcome = "SpawnFailure" <=> lastRun.event.type = "error"
  /\ lastRun.event.type = "close" =>
       /\ lastRun.output = [settled |-> "resolved", code |-> lastRun.event.code,
                            stdout |-> lastRun.event.stdout, stderr |-> lastRun.event.stderr]
       /\ (\A i \in 1..Len(lastRun.event.stdout) : Mappable(lastRun.event.stdout[i])) =>
            /\ lastRun.outcome = "Published"
            /\ \A f \in DOMAIN diagnosticsPerFile :
                 f \in DOMAIN dc /\ dc[f] = diagnosticsPerFile[f]

C6_Witness ==
  /\ lastRun.event.type = "close" /\ lastRun.event.code # 0
  /\ lastRun.outcome = "Published"
  /\ \E f \in DOMAIN dc : dc[f] # <<>>

\* C7: the parser's result has one element per line that is non-empty after
\* trimming, in line order: the decoded record of the line, or the null
\* placeholder when the line cannot be decoded.
NonBlank(s) == {i \in 1..Len(s) : s[i].text.t # "empty"}
RankIn(s, i) == Cardinality({j \in NonBlank(s) : j <= i})
C7_OneElementPerNonEmptyLine ==
  pOut.done =>
    /\ Len(pOut.value) = Cardinality(NonBlank(pIn))
    /\ \A i \in NonBlank(pIn) :
         pOut.value[RankIn(pIn, i)] =
           IF pIn[i].text.t = "json" THEN pIn[i].text.v ELSE Null

C7_Witness ==
  /\ pOut.done /\ Len(pIn) = 3 /\ Len(pOut.value) = 2
  /\ Undecodable(pIn[1]) /\ pOut.value[1] = Null
  /\ pOut.value[2] = MsgUnused

\* C8: after a successful run the store's sequence for every path is exactly
\* one diagnostic per span whose joined path is that path, over the messages
\* that have a body, in encounter order, repeated spans kept.
C8_StoreIsSpansInEncounterOrder ==
  lastRun.outcome = "Published" =>
    \A f \in DOMAIN diagnosticsPerFile \cup KeysOf(lastRun.messages, lastRun.cargoRoot) :
      StoreSeq(f) = ExpectedFor(lastRun.messages, lastRun.cargoRoot, f)

C8_Witness ==
  /\ lastRun.outcome = "Published"
  /\ \E f \in DOMAIN diagnosticsPerFile :
       /\ Len(diagnosticsPerFile[f]) = 3
       /\ diagnosticsPerFile[f][1].severity = "Error"
       /\ diagnosticsPerFile[f][2].severity = "Hint"
       /\ diagnosticsPerFile[f][3].severity = "Warning"

\* C9: the severity is Error for a primary span of an "error" message, Warning
\* for a primary span of any other level, Hint for a span that is not primary.
C9_Severity ==
  mDiag # NoDiagnostic =>
    mDiag.severity =
      CASE mSpan.is_primary /\ mMsg.message.level = "error" -> "Error"
        [] mSpan.is_primary /\ mMsg.message.level # "error" -> "Warning"
        [] ~mSpan.is_primary -> "Hint"

C9_Witness ==
  mDiag.severity = "Hint" /\ mMsg.message.level = "error" /\ ~mSpan.is_primary

\* C10: the label is the message text when the span has no label, and the
\* message text, ": " and the span's label when it has one.
C10_Label ==
  mDiag # NoDiagnostic =>
    /\ mSpan.label.null => mDiag.message = mMsg.message.message
    /\ ~mSpan.label.null =>
         /\ Len(mDiag.message) = Len(mMsg.message.message) + 1 + Len(mSpan.label.text)
         /\ SubSeq(mDiag.message, 1, Len(mMsg.message.message)) = mMsg.message.message
         /\ mDiag.message[Len(mMsg.message.message) + 1] = ": "
         /\ SubSeq(mDiag.message, Len(mMsg.message.message) + 2, Len(mDiag.message))
              = mSpan.label.text

C10_Witness ==
  mDiag.message = <<"mismatched types", ": ", "expected u32">>

\* C11: a save event for a document whose name does not end with ".rs" starts
\* no run and leaves every invocation, the store, the published collection and
\* the status indicator unchanged, whatever runs are in flight.
C11_NonRsSaveIgnored ==
  [][(saved' # saved /\ Last(saved'.segs) = "notes.txt") =>
       UNCHANGED <<pc, fileName, folder, probes, cargoRoot, overtakenBy,
                   diagnosticsPerFile, dc, statusItem>>]_vars

C11_Witness ==
  /\ Last(saved.segs) = "notes.txt"
  /\ \E r \in Runs : pc[r] = "Checking"
  /\ statusItem.shown
  /\ \E f \in DOMAIN dc : dc[f] # <<>>

\* C12: runs are not ordered by their start: a run that a later-started run
\* has already overtaken (the later run published while it was in flight)
\* still clears, maps and publishes when its own checker exits, so the store
\* and the published collection then reflect the older run's output.
C12_OvertakenRunStillOverwrites ==
  (/\ lastRun.overtakenBy # <<>>
   /\ lastRun.event.type = "close"
   /\ \A i \in 1..Len(lastRun.event.stdout) : Mappable(lastRun.event.stdout[i])) =>
    /\ lastRun.outcome = "Published"
    /\ \A f \in DOMAIN dc :
         /\ dc[f] = ExpectedFor(lastRun.messages, lastRun.cargoRoot, f)
         /\ StoreSeq(f) = dc[f]

\* the later run had published three diagnostics; the older run, finishing
\* afterwards with a clean output, has replaced them by empty lists
C12_Witness ==
  /\ lastRun.overtakenBy = OutTwo
  /\ lastRun.event.type = "close"
  /\ lastRun.event.stdout = OutClean
  /\ lastRun.outcome = "Published"
  /\ DOMAIN dc # {}
  /\ \A f \in DOMAIN dc : dc[f] = <<>> /\ StoreSeq(f) = <<>>
\* C13: every run finishes.  findCargoRoot probes one directory per
\* iteration, from the file's directory towards the root, so a run that is
\* still locating its root has probed fewer directories than its file has
\* ancestor directories; once it has probed them all it has either found a
\* manifest or rejected, and the handler goes on to the checker or returns.
C13_LocatingRunFinishes ==
  \A r \in Runs :
    pc[r] = "LocatingRoot" => probes[r] < Len(fileName[r].segs)

\* C13 as a temporal formula: the oldest run in flight eventually returns
\* (every other run becomes the oldest once those before it have returned)
C13_OldestRunReturns == (pc[1] # "Idle") ~> (lastRun.slot = 1)

\* C14: at the end of a successful run every path of the store, also one
\* whose sequence is empty, has a published entry equal to the store's
\* sequence, whatever was published for it before.
C14_PublishedEqualsStore ==
  lastRun.outcome = "Published" =>
    \A f \in DOMAIN diagnosticsPerFile :
      f \in DOMAIN dc /\ dc[f] = diagnosticsPerFile[f]

\* a path flagged by an earlier run is now empty in both (its published
\* diagnostics were replaced), next to a path with diagnostics
C14_Witness ==
  /\ lastRun.outcome = "Published"
  /\ \E f \in DOMAIN diagnosticsPerFile :
       diagnosticsPerFile[f] = <<>> /\ dc[f] = <<>>
  /\ \E g \in DOMAIN diagnosticsPerFile :
       Len(diagnosticsPerFile[g]) = 2 /\ dc[g] = diagnosticsPerFile[g]

\* C15: no step removes a path from the store: the set of its keys only
\* grows, through runs that publish, fail or overlap.
C15_StoreKeysNeverShrink ==
  [][DOMAIN diagnosticsPerFile \subseteq DOMAIN diagnosticsPerFile']_vars

\* an overtaken run has cleared the store and then failed in the mapping loop:
\* the paths of the other project are still keys, with empty sequences
C15_Witness ==
  /\ lastRun.outcome = "MapFailure"
  /\ lastRun.overtakenBy # <<>>
  /\ \E f \in DOMAIN diagnosticsPerFile : diagnosticsPerFile[f] = <<>>
  /\ \E g \in DOMAIN diagnosticsPerFile : diagnosticsPerFile[g] # <<>>

\* C16: the steps of one run come in order, whatever other runs do.  A run
\* starts by locating; its checker starts only once its root is located; the
\* store and the collection change only when a run whose checker has exited
\* returns, with the messages parsed from that checker's output; the mapped
\* store holds nothing from before the clear; and the collection is published
\* from the mapped store (not at all when the mapping failed).
C16_StepsInOrder ==
  [][/\ \A r \in Runs :
          /\ (pc[r] = "Idle" /\ pc'[r] # "Idle") => pc'[r] = "LocatingRoot"
          /\ (lastRun'.slot = 0 /\ pc[r] # "Checking" /\ pc'[r] = "Checking") =>
                /\ pc[r] = "LocatingRoot"
                /\ cargoRoot'[r] # NoPath
                /\ testExists(join(cargoRoot'[r], Manifest))
     /\ (diagnosticsPerFile' # diagnosticsPerFile \/ dc' # dc) =>
          lastRun'.outcome \in {"Published", "MapFailure"}
     /\ lastRun'.outcome \in {"Published", "MapFailure"} =>
          /\ pc[lastRun'.slot] = "Checking"
          /\ lastRun'.cargoRoot = cargoRoot[lastRun'.slot]
          /\ lastRun'.event.type = "close"
          /\ lastRun'.messages = processCargoCheckOutput(lastRun'.event.stdout)
     /\ lastRun'.outcome = "Published" =>
          \A f \in DOMAIN diagnosticsPerFile' :
            /\ diagnosticsPerFile'[f] = ExpectedFor(lastRun'.messages, lastRun'.cargoRoot, f)
            /\ f \in DOMAIN dc' /\ dc'[f] = diagnosticsPerFile'[f]
     /\ lastRun'.outcome = "MapFailure" => dc' = dc
    ]_vars

\* a run has just published three diagnostics over an earlier result while
\* another run is still in flight
C16_Witness ==
  /\ lastRun.outcome = "Published"
  /\ lastRun.event.stdout = OutTwo
  /\ \E r \in Runs : pc[r] # "Idle"
  /\ \E f \in DOMAIN dc : Len(dc[f]) = 3
  /\ \E g \in DOMAIN dc : dc[g] = <<>>

\* C17: the range of a diagnostic starts at (line_start - 1, column_start - 1)
\* and ends at (line_end - 1, column_end - 1); a span whose start and end
\* coincide gives a range of width zero.
C17_RangeIsZeroBased ==
  mDiag # NoDiagnostic =>
    /\ mDiag.range.start = Position(mSpan.line_start - 1, mSpan.column_start - 1)
    /\ mDiag.range.end = Position(mSpan.line_end - 1, mSpan.column_end - 1)
    /\ (mSpan.line_start = mSpan.line_end /\ mSpan.column_start = mSpan.column_end) =>
         mDiag.range.start = mDiag.range.end

\* the degenerate span 4:1-4:1 has become the empty range (3,0)-(3,0)
C17_Witness ==
  /\ mSpan.line_start = mSpan.line_end /\ mSpan.column_start = mSpan.column_end
  /\ mDiag.severity # "none"
  /\ mDiag.range = Range(Position(3, 0), Position(3, 0))

\* C18: the published collection changes only in the step in which a run
\* publishes, and after that step every one of its entries is what that run's
\* checker output maps to: between handler steps the collection holds the
\* results of the run that published last and nothing of any other run.
C18_CollectionFromOneRun ==
  [][/\ dc' # dc => lastRun'.outcome = "Published"
     /\ lastRun'.outcome = "Published" =>
          \A f \in DOMAIN dc' :
            dc'[f] = ExpectedFor(lastRun'.messages, lastRun'.cargoRoot, f)
    ]_vars

\* two overlapping runs have both published, the one on /q last: the entry of
\* /p/src/main.rs, which the other run had filled, is empty
C18_Witness ==
  /\ lastRun.outcome = "Published"
  /\ lastRun.overtakenBy = OutTwo
  /\ lastRun.event.stdout = OutLib
  /\ \E f \in DOMAIN dc : Last(f.segs) = "lib.rs" /\ Len(dc[f]) = 2
  /\ \E g \in DOMAIN dc : g.segs[1] = "p" /\ dc[g] = <<>>

\* C19: there is one store for all project roots: after a successful run only
\* the files that the run's checker output refers to have stored or published
\* diagnostics; every other file of the store, also one under another project
\* root, has been emptied in the store and in the collection.
C19_OtherRootsEmptied ==
  lastRun.outcome = "Published" =>
    \A f \in DOMAIN diagnosticsPerFile \cup DOMAIN dc :
      f \notin KeysOf(lastRun.messages, lastRun.cargoRoot) =>
        /\ StoreSeq(f) = <<>>
        /\ f \in DOMAIN dc /\ dc[f] = <<>>

\* a run under /p has published: the file under /q that an earlier run had
\* flagged is empty in the store and in the collection
C19_Witness ==
  /\ lastRun.outcome = "Published"
  /\ lastRun.cargoRoot = AbsPath(<<"p">>)
  /\ lastRun.overtakenBy = <<>>
  /\ \E f \in DOMAIN diagnosticsPerFile :
       /\ f.segs[1] = "q"
       /\ diagnosticsPerFile[f] = <<>> /\ dc[f] = <<>>
  /\ \E g \in DOMAIN diagnosticsPerFile :
       g.segs[1] = "p" /\ Len(diagnosticsPerFile[g]) = 3

====
